---------------------------- MODULE Spec2Model ----------------------------
(***************************************************************************)
(* A model of pyclover.py: the window resolver, the page-draining fetch,   *)
(* the month chunking of get_payments / get_orders, the metric folds and   *)
(* the report that main() prints.                                          *)
(*                                                                         *)
(* Representation.                                                         *)
(*   date      its proleptic Gregorian ordinal (date.toordinal()).         *)
(*   datetime  <<ordinal, hour, tick>>: a wall-clock reading; a tick is    *)
(*             1/TicksPerHour of an hour.                                  *)
(*   instant   ticks since 0001-01-00T00:00 UTC.  The program's epoch      *)
(*             milliseconds are this number minus the Unix epoch, times    *)
(*             the milliseconds in a tick: an order-preserving rescaling,  *)
(*             so every comparison of instants is kept as the code makes   *)
(*             it.                                                         *)
(*   str       a sequence of one-character strings.                        *)
(*   dict      a function from key strings to values; an absent key is     *)
(*             absent from the DOMAIN.                                     *)
(***************************************************************************)
EXTENDS Integers, Sequences, FiniteSets, TLC

(***************************************************************************)
(* Bounds of the model.                                                    *)
(***************************************************************************)
\* The current date ranges over NumDays consecutive days from FirstToday.
NumDays == 420
\* The largest remote collection that paged_get drains.
MaxRecords == 2001
\* The resolution of time: instants are whole ticks.
TicksPerHour == 2
\* The most payments or orders the merchant holds in whole runs of main().
MaxRows == 2
\* The most discount lines the merchant's orders carry between them.
MaxLines == 3

(***************************************************************************)
(* Program constants.                                                      *)
(***************************************************************************)
PAGE_LIMIT == 1000
\* The chunking threshold of get_payments / get_orders, in days.
CHUNK_DAYS == 90

(***************************************************************************)
(* The calendar (datetime.date).                                           *)
(***************************************************************************)
is_leap(y) == (y % 4 = 0) /\ ((y % 100 # 0) \/ (y % 400 = 0))

days_before_year(y) ==
    (y - 1) * 365 + ((y - 1) \div 4) - ((y - 1) \div 100) + ((y - 1) \div 400)

days_in_month(y, m) ==
    CASE m = 2 -> IF is_leap(y) THEN 29 ELSE 28
      [] m \in {4, 6, 9, 11} -> 30
      [] OTHER -> 31

RECURSIVE days_before_month(_, _)
days_before_month(y, m) ==
    IF m = 1 THEN 0 ELSE days_before_month(y, m - 1) + days_in_month(y, m - 1)

\* date(y, m, d)
date(y, m, d) == days_before_year(y) + days_before_month(y, m) + d

year_of(o) ==
    CHOOSE y \in ((o \div 366) .. ((o \div 365) + 1)) :
        days_before_year(y) < o /\ o <= days_before_year(y + 1)

month_of(o) ==
    LET y == year_of(o)
        n == o - days_before_year(y)
    IN  CHOOSE m \in 1..12 :
            days_before_month(y, m) < n
            /\ n <= days_before_month(y, m) + days_in_month(y, m)

day_of(o) ==
    LET y == year_of(o)
    IN  o - days_before_year(y) - days_before_month(y, month_of(o))

\* d.weekday(): Monday is 0, Sunday is 6.
weekday(o) == (o + 6) % 7

\* d.replace(day=1)
replace_day1(o) == date(year_of(o), month_of(o), 1)

(***************************************************************************)
(* The fixed timezone, America/Chicago (ZoneInfo): UTC-6, and UTC-5 while  *)
(* daylight time is in force.  Daylight time runs from 02:00 on the second *)
(* Sunday of March to 02:00 on the first Sunday of November (from 2007),   *)
(* and from the first Sunday of April to the last Sunday of October        *)
(* before.                                                                 *)
(***************************************************************************)
first_sunday_from(o) == o + ((6 - weekday(o)) % 7)

dst_start(y) ==
    IF y >= 2007 THEN first_sunday_from(date(y, 3, 8))
                 ELSE first_sunday_from(date(y, 4, 1))

dst_end(y) ==
    IF y >= 2007 THEN first_sunday_from(date(y, 11, 1))
                 ELSE first_sunday_from(date(y, 10, 25))

\* The UTC offset, in hours, of the wall-clock reading dt (fold = 0).
utcoffsetFixed(dt) == -6

utcoffset(dt) ==
    LET y == year_of(dt[1])
        s == dst_start(y)
        e == dst_end(y)
        after  == dt[1] > s \/ (dt[1] = s /\ dt[2] >= 3)
        before == dt[1] < e \/ (dt[1] = e /\ dt[2] < 2)
    IN  IF after /\ before THEN -5 ELSE -6

\* datetime.combine(d, time(h, 0), tzinfo=CENTRAL_TZ)
combine(d, h) == <<d, h, 0>>

\* The reading dt as ticks since 0001-01-00T00:00 on its own clock.
ticks_of(dt) == (dt[1] * 24 + dt[2]) * TicksPerHour + dt[3]

\* The reading of a clock that shows n ticks since 0001-01-00T00:00.
reading_of(n) ==
    <<n \div (24 * TicksPerHour), (n \div TicksPerHour) % 24, n % TicksPerHour>>

\* epoch_ms(dt): the instant of the Central wall-clock reading dt.
epoch_ms(dt) == ticks_of(dt) - utcoffset(dt) * TicksPerHour

\* datetime.fromtimestamp(ms / 1000, tz=timezone.utc)
fromtimestamp_utc(t) == reading_of(t)

\* dt.astimezone(CENTRAL_TZ) of the instant t.
astimezone_central(t) ==
    LET y   == year_of(reading_of(t)[1])
        dst == /\ t >= (dst_start(y) * 24 + 2 + 6) * TicksPerHour
               /\ t < (dst_end(y) * 24 + 2 + 5) * TicksPerHour
    IN  reading_of(IF dst THEN t - 5 * TicksPerHour ELSE t - 6 * TicksPerHour)

(***************************************************************************)
(* Strings, int() and date.fromisoformat().                                *)
(***************************************************************************)
Digits == <<"0", "1", "2", "3", "4", "5", "6", "7", "8", "9">>

is_digit(c) == \E i \in 1..10 : Digits[i] = c

digit_val(c) == (CHOOSE i \in 1..10 : Digits[i] = c) - 1

all_digits(s) == Len(s) > 0 /\ \A i \in 1..Len(s) : is_digit(s[i])

RECURSIVE digits_val(_)
digits_val(s) ==
    IF Len(s) = 0 THEN 0
    ELSE digits_val(SubSeq(s, 1, Len(s) - 1)) * 10 + digit_val(s[Len(s)])

\* int(s): an optional sign and decimal digits; anything else is ValueError.
int_parse(s) ==
    LET signed == Len(s) > 0 /\ s[1] \in {"+", "-"}
        body   == IF signed THEN Tail(s) ELSE s
    IN  IF all_digits(body)
        THEN [ok |-> TRUE,
              val |-> IF signed /\ s[1] = "-" THEN 0 - digits_val(body)
                                             ELSE digits_val(body)]
        ELSE [ok |-> FALSE]

\* date.fromisoformat(s): YYYY-MM-DD naming a day that exists.
fromisoformat(s) ==
    IF Len(s) = 10 /\ s[5] = "-" /\ s[8] = "-"
       /\ all_digits(SubSeq(s, 1, 4)) /\ all_digits(SubSeq(s, 6, 7))
       /\ all_digits(SubSeq(s, 9, 10))
    THEN LET y == digits_val(SubSeq(s, 1, 4))
             m == digits_val(SubSeq(s, 6, 7))
             d == digits_val(SubSeq(s, 9, 10))
         IN  IF y >= 1 /\ m \in 1..12 /\ d >= 1 /\ d <= days_in_month(y, m)
             THEN [ok |-> TRUE, val |-> date(y, m, d)]
             ELSE [ok |-> FALSE]
    ELSE [ok |-> FALSE]

kw_year       == <<"y", "e", "a", "r">>
kw_today      == <<"t", "o", "d", "a", "y">>
kw_yesterday  == <<"y", "e", "s", "t", "e", "r", "d", "a", "y">>
kw_week       == <<"w", "e", "e", "k">>
kw_month      == <<"m", "o", "n", "t", "h">>
kw_last_week  == <<"l", "a", "s", "t", "_", "w", "e", "e", "k">>
kw_last_month == <<"l", "a", "s", "t", "_", "m", "o", "n", "t", "h">>

(***************************************************************************)
(* window(range_key), with the current Central date passed in.             *)
(***************************************************************************)
sunday_of_weekNoWrap(d) == d - (weekday(d) + 1)

sunday_of_week(d) == d - ((weekday(d) + 1) % 7)

Max(a, b) == IF a >= b THEN a ELSE b
Min(a, b) == IF a <= b THEN a ELSE b

\* What window returns: (epoch_ms(start_dt), epoch_ms(end_dt), s, e, type).
interval_of(s, e, range_type) ==
    [ok |-> TRUE,
     start_ms |-> epoch_ms(combine(s, 12)),
     end_ms |-> epoch_ms(combine(e + 1, 0)),
     s |-> s, e |-> e, range_type |-> range_type]

\* sys.exit("Unknown range or bad date")
bad_range == [ok |-> FALSE]

Upper ==
    <<"A", "B", "C", "D", "E", "F", "G", "H", "I", "J", "K", "L", "M",
      "N", "O", "P", "Q", "R", "S", "T", "U", "V", "W", "X", "Y", "Z">>

Lower ==
    <<"a", "b", "c", "d", "e", "f", "g", "h", "i", "j", "k", "l", "m",
      "n", "o", "p", "q", "r", "s", "t", "u", "v", "w", "x", "y", "z">>

\* s.lower()
lower(s) ==
    [i \in 1..Len(s) |->
        IF \E j \in 1..26 : Upper[j] = s[i]
        THEN Lower[CHOOSE j \in 1..26 : Upper[j] = s[i]]
        ELSE s[i]]

\* range_key == "year"
is_year_keyAnyCase(key) == lower(key) = kw_year

is_year_key(key) == key = kw_year

window(range_key, now) ==
    LET as_int == int_parse(range_key)
        single == fromisoformat(range_key)
    IN  IF is_year_key(range_key)
        THEN interval_of(date(year_of(now), 1, 1), date(year_of(now), 12, 31), "year")
        ELSE IF as_int.ok /\ 2000 <= as_int.val /\ as_int.val <= 2099
        THEN interval_of(date(as_int.val, 1, 1), date(as_int.val, 12, 31), "year")
        ELSE IF single.ok
        THEN interval_of(single.val, single.val, "day")
        ELSE IF range_key = kw_today
        THEN interval_of(now, now, "day")
        ELSE IF range_key = kw_yesterday
        THEN interval_of(now - 1, now - 1, "day")
        ELSE IF range_key = kw_week
        THEN interval_of(Max(sunday_of_week(now), replace_day1(now)), now, "range")
        ELSE IF range_key = kw_month
        THEN interval_of(replace_day1(now), now, "range")
        ELSE IF range_key = kw_last_week
        THEN LET current_week_start == sunday_of_week(now)
             IN  interval_of(current_week_start - 7, current_week_start - 1, "range")
        ELSE IF range_key = kw_last_month
        THEN LET last_of_prev == replace_day1(now) - 1
             IN  interval_of(replace_day1(last_of_prev), last_of_prev, "range")
        ELSE bad_range

(***************************************************************************)
(* Dictionaries and the metric folds.                                      *)
(***************************************************************************)
\* d.get(k, default)
Get(d, k, default) == IF k \in DOMAIN d THEN d[k] ELSE default

has(d, k) == k \in DOMAIN d

\* d[k] = v
Put(d, k, v) == [x \in (DOMAIN d) \cup {k} |-> IF x = k THEN v ELSE d[x]]

EmptyDict == <<>>

\* The truth value of d.get(k) for a dictionary-valued key.
truthy_dict(d, k) == has(d, k) /\ DOMAIN d[k] # {}

\* The truth value of d.get(k) for a number-valued key.
truthy_val(d, k) == has(d, k) /\ d[k] # 0

\* The truth value of d.get(k) for a string-valued key.
truthy_str(d, k) == has(d, k) /\ d[k] # ""

abs(n) == IF n < 0 THEN 0 - n ELSE n

\* x / 100 rounded to the nearest integer, halves up.
int_div100HalfUp(x) == (x + 50) \div 100

\* int(x / 100): truncation toward zero.
int_div100(x) == IF x >= 0 THEN x \div 100 ELSE 0 - ((0 - x) \div 100)

RECURSIVE sum_field(_, _)
sum_field(rows, k) ==
    IF rows = <<>> THEN 0 ELSE Get(Head(rows), k, 0) + sum_field(Tail(rows), k)

\* p.get("refunds", {}).get("elements", []) if p.get("refunds") else []
refund_elements(p) ==
    IF truthy_dict(p, "refunds") THEN Get(p["refunds"], "elements", <<>>) ELSE <<>>

RECURSIVE sum_refunds(_)
sum_refunds(rows) ==
    IF rows = <<>> THEN 0
    ELSE sum_field(refund_elements(Head(rows)), "amount") + sum_refunds(Tail(rows))

net_sales_cents(rows) ==
    sum_field(rows, "amount") - sum_field(rows, "taxAmount") - sum_refunds(rows)

total_tax_cents(rows) == sum_field(rows, "taxAmount")

total_tips_cents(rows) == sum_field(rows, "tipAmount")

\* The net sales of one payment, as the three breakdowns compute it.
payment_net(p) ==
    Get(p, "amount", 0) - Get(p, "taxAmount", 0)
        - sum_field(refund_elements(p), "amount")

UnknownEmployee == "Unknown Employee"

\* The employee id tips_by_employee finds on a payment; "" stands for None.
tip_emp_idNoFallback(p) ==
    IF truthy_dict(p, "employee") THEN Get(p["employee"], "id", "") ELSE ""

tip_emp_id(p) ==
    IF truthy_dict(p, "employee")
    THEN Get(p["employee"], "id", "")
    ELSE IF truthy_dict(p, "order") /\ truthy_dict(p["order"], "employee")
    THEN Get(p["order"]["employee"], "id", "")
    ELSE ""

\* employee_map.get(emp_id, emp_id) if emp_id else "Unknown Employee"
tip_nameUnknown(p, employee_map) ==
    LET emp_id == tip_emp_id(p)
    IN  IF emp_id # "" /\ has(employee_map, emp_id)
        THEN employee_map[emp_id] ELSE UnknownEmployee

tip_name(p, employee_map) ==
    LET emp_id == tip_emp_id(p)
    IN  IF emp_id # "" THEN Get(employee_map, emp_id, emp_id) ELSE UnknownEmployee

RECURSIVE tips_fold(_, _, _)
tips_fold(rows, employee_map, emap) ==
    IF rows = <<>> THEN emap
    ELSE LET p    == Head(rows)
             amt  == Get(p, "tipAmount", 0)
             name == tip_name(p, employee_map)
         IN  IF amt <= 0
             THEN tips_fold(Tail(rows), employee_map, emap)
             ELSE tips_fold(Tail(rows), employee_map,
                            Put(emap, name, Get(emap, name, 0) + amt))

tips_by_employee(rows, employee_map) == tips_fold(rows, employee_map, EmptyDict)

\* o.get("discounts", {}).get("elements", [])
discount_elements(o) == Get(Get(o, "discounts", EmptyDict), "elements", <<>>)

RECURSIVE total_discounts_cents(_)
total_discounts_cents(orders) ==
    IF orders = <<>> THEN 0
    ELSE sum_field(discount_elements(Head(orders)), "amount")
            + total_discounts_cents(Tail(orders))

\* The display name discounts_breakdown gives a discount line.
discount_name(d, discount_map) ==
    LET name == Get(d, "name", "Unknown Discount")
        did  == IF has(d, "discount")
                THEN Get(d["discount"], "id", "")
                ELSE IF truthy_str(d, "discountDefinitionId")
                THEN d["discountDefinitionId"]
                ELSE IF truthy_str(d, "discountId")
                THEN d["discountId"]
                ELSE ""
    IN  IF name = "Discount"
        THEN IF did # "" /\ has(discount_map, did)
             THEN discount_map[did] ELSE "Manual Discount"
        ELSE name

\* The signed amount discounts_breakdown gives a discount line.
discount_amount(d, order_total) ==
    IF truthy_val(d, "amount")
    THEN d["amount"]
    ELSE IF truthy_val(d, "percentage") /\ order_total > 0
    THEN 0 - int_div100(order_total * d["percentage"])
    ELSE 0

RECURSIVE lines_fold(_, _, _, _)
lines_fold(ds, order_total, discount_map, dmap) ==
    IF ds = <<>> THEN dmap
    ELSE LET name == discount_name(Head(ds), discount_map)
         IN  lines_fold(Tail(ds), order_total, discount_map,
                        Put(dmap, name,
                            Get(dmap, name, 0) + discount_amount(Head(ds), order_total)))

RECURSIVE orders_fold(_, _, _)
orders_fold(orders, discount_map, dmap) ==
    IF orders = <<>> THEN dmap
    ELSE orders_fold(Tail(orders), discount_map,
                     lines_fold(discount_elements(Head(orders)),
                                Get(Head(orders), "total", 0), discount_map, dmap))

discounts_breakdown(orders, discount_map) == orders_fold(orders, discount_map, EmptyDict)

\* The hour bucket of sales_by_hour for a payment, 0 when it is skipped.
hour_keyAfterNoon(p, target_date) ==
    IF ~truthy_val(p, "createdTime") THEN 0
    ELSE LET dt == astimezone_central(p["createdTime"])
         IN  IF dt[1] = target_date
             THEN (IF dt[2] > 12 THEN dt[2] ELSE 0)
             ELSE IF dt[1] = target_date + 1 /\ dt[2] = 0 THEN 24 ELSE 0

hour_key(p, target_date) ==
    IF ~truthy_val(p, "createdTime") THEN 0
    ELSE LET dt == astimezone_central(p["createdTime"])
         IN  IF dt[1] = target_date
             THEN (IF dt[2] >= 12 THEN dt[2] ELSE 0)
             ELSE IF dt[1] = target_date + 1 /\ dt[2] = 0 THEN 24 ELSE 0

RECURSIVE hour_fold(_, _, _)
hour_fold(rows, target_date, hourly_sales) ==
    IF rows = <<>> THEN hourly_sales
    ELSE LET k == hour_key(Head(rows), target_date)
         IN  IF k = 0
             THEN hour_fold(Tail(rows), target_date, hourly_sales)
             ELSE hour_fold(Tail(rows), target_date,
                            Put(hourly_sales, k,
                                Get(hourly_sales, k, 0) + payment_net(Head(rows))))

sales_by_hour(rows, target_date) == hour_fold(rows, target_date, EmptyDict)

\* The business day of a payment: before 12:00 it is the previous date.
business_day(p) ==
    LET dt == astimezone_central(p["createdTime"])
    IN  IF dt[2] < 12 THEN dt[1] - 1 ELSE dt[1]

RECURSIVE day_fold(_, _, _, _)
day_fold(rows, start_date, end_date, daily_sales) ==
    IF rows = <<>> THEN daily_sales
    ELSE LET p == Head(rows)
         IN  IF ~truthy_val(p, "createdTime")
                \/ ~(start_date <= business_day(p) /\ business_day(p) <= end_date)
             THEN day_fold(Tail(rows), start_date, end_date, daily_sales)
             ELSE day_fold(Tail(rows), start_date, end_date,
                           Put(daily_sales, business_day(p),
                               Get(daily_sales, business_day(p), 0) + payment_net(p)))

sales_by_day(rows, start_date, end_date) ==
    day_fold(rows, start_date, end_date, EmptyDict)

RECURSIVE month_fold(_, _, _)
month_fold(rows, year, monthly_sales) ==
    IF rows = <<>> THEN monthly_sales
    ELSE LET p == Head(rows)
         IN  IF ~truthy_val(p, "createdTime") \/ year_of(business_day(p)) # year
             THEN month_fold(Tail(rows), year, monthly_sales)
             ELSE month_fold(Tail(rows), year,
                             Put(monthly_sales, month_of(business_day(p)),
                                 Get(monthly_sales, month_of(business_day(p)), 0)
                                    + payment_net(p)))

sales_by_month(rows, year) == month_fold(rows, year, EmptyDict)

(***************************************************************************)
(* The run of main(): one invocation of the program against one remote     *)
(* merchant.                                                               *)
(***************************************************************************)
VARIABLES
    pc,         \* where main() is
    today,      \* datetime.now(CENTRAL_TZ).date()
    range_key,  \* args.range
    query,      \* args.query
    detail,     \* args.detail
    remote,     \* the merchant's collections behind the REST API
    interval,   \* what window() returned
    cur,        \* current_date (get_payments) or current_dt (get_orders)
    acc,        \* all_payments / all_orders
    path,       \* paged_get: the path being drained
    offset,     \* paged_get: offset
    out,        \* paged_get: out
    caller,     \* who called paged_get
    requests,   \* every GET issued so far, in order
    rows,       \* payments / orders as main() holds them
    name_map,   \* emp_map / disc_map
    output      \* what has been printed on stdout

vars == <<pc, today, range_key, query, detail, remote, interval, cur, acc,
          path, offset, out, caller, requests, rows, name_map, output>>

args == <<today, range_key, query, detail, remote>>

NoPath == [resource |-> "", filtered |-> FALSE, lo |-> 0, lo_closed |-> FALSE, hi |-> 0]

\* The path of a creation-time query: createdTime > lo (or >= lo), < hi.
time_path(resource, lo, lo_closed, hi) ==
    [resource |-> resource, filtered |-> TRUE, lo |-> lo, lo_closed |-> lo_closed,
     hi |-> hi]

\* The path of an unfiltered listing.
list_path(resource) ==
    [resource |-> resource, filtered |-> FALSE, lo |-> 0, lo_closed |-> FALSE, hi |-> 0]

(***************************************************************************)
(* The REST API, serving faithfully: the records of the collection that    *)
(* match the path's filters, in collection order, limit of them from       *)
(* offset.  remote.payments holds the payments that pass result=SUCCESS    *)
(* and voided=false.                                                       *)
(***************************************************************************)
matches(r, p) ==
    \/ ~p.filtered
    \/ /\ has(r, "createdTime")
       /\ IF p.lo_closed THEN r["createdTime"] >= p.lo ELSE r["createdTime"] > p.lo
       /\ r["createdTime"] < p.hi

matching(p) == SelectSeq(remote[p.resource], LAMBDA r : matches(r, p))

serve(p, off, limit) ==
    LET m == matching(p)
    IN  SubSeq(m, off + 1, Min(off + limit, Len(m)))

(***************************************************************************)
(* main(): window(args.range).                                             *)
(***************************************************************************)
Window ==
    /\ pc = "start"
    /\ interval' = window(range_key, today)
    /\ pc' = IF interval'.ok THEN "fetch" ELSE "exit"
    /\ UNCHANGED <<args, cur, acc, path, offset, out, caller, requests, rows,
                   name_map, output>>

(***************************************************************************)
(* get_payments / get_orders, up to the next call of paged_get or to the   *)
(* return.                                                                 *)
(***************************************************************************)
resource_of(q) == IF q = "discounts" THEN "orders" ELSE "payments"

\* (end_dt - start_dt).days
days_diff(start_ms, end_ms) == (end_ms - start_ms) \div (24 * TicksPerHour)

\* get_payments: end_date, the Central date of end_ms.
chunk_end_date(end_ms) == astimezone_central(end_ms)[1]

\* get_payments: next_month_start.
next_month_start(current_date) ==
    IF month_of(current_date) = 12
    THEN date(year_of(current_date) + 1, 1, 1)
    ELSE date(year_of(current_date), month_of(current_date) + 1, 1)

\* get_payments: the path of the chunk that starts on current_date.
payments_chunk_path(current_date, end_ms) ==
    LET month_end == Min(next_month_start(current_date) - 1, chunk_end_date(end_ms))
    IN  time_path("payments", epoch_ms(combine(current_date, 12)), TRUE,
                  epoch_ms(combine(month_end + 1, 0)))

\* get_orders: next_month, current_dt with the month advanced and day = 1.
next_month(current_dt) ==
    LET dt == fromtimestamp_utc(current_dt)
    IN  ticks_of(<<next_month_start(dt[1]), dt[2], dt[3]>>)

\* get_orders: the path of the chunk that starts at current_dt.
orders_chunk_path(current_dt, end_ms) ==
    time_path("orders", current_dt, FALSE, Min(next_month(current_dt), end_ms))

\* print(f"Fetching orders for {current_dt.strftime('%Y-%m')}...")
progress_line(current_dt) ==
    LET dt == fromtimestamp_utc(current_dt)
    IN  [kind |-> "progress", year |-> year_of(dt[1]), month |-> month_of(dt[1])]

call_paged_get(p, who) ==
    /\ path' = p
    /\ offset' = 0
    /\ out' = <<>>
    /\ caller' = who
    /\ pc' = "page"

GetRows ==
    /\ pc \in {"fetch", "chunk"}
    /\ IF pc = "fetch"
       THEN IF days_diff(interval.start_ms, interval.end_ms) > CHUNK_DAYS
            THEN /\ cur' = IF query = "discounts"
                           THEN interval.start_ms
                           ELSE astimezone_central(interval.start_ms)[1]
                 /\ acc' = <<>>
                 /\ pc' = "chunk"
                 /\ UNCHANGED <<path, offset, out, caller, rows, output>>
            ELSE /\ call_paged_get(time_path(resource_of(query), interval.start_ms,
                                             FALSE, interval.end_ms), "single")
                 /\ UNCHANGED <<cur, acc, rows, output>>
       ELSE IF query = "discounts"
            THEN IF cur < interval.end_ms
                 THEN /\ call_paged_get(orders_chunk_path(cur, interval.end_ms), "chunk")
                      /\ output' = Append(output, progress_line(cur))
                      /\ UNCHANGED <<cur, acc, rows>>
                 ELSE /\ rows' = acc
                      /\ pc' = "fetched"
                      /\ UNCHANGED <<cur, acc, path, offset, out, caller, output>>
            ELSE IF cur <= chunk_end_date(interval.end_ms)
                 THEN /\ call_paged_get(payments_chunk_path(cur, interval.end_ms), "chunk")
                      /\ UNCHANGED <<cur, acc, rows, output>>
                 ELSE /\ rows' = acc
                      /\ pc' = "fetched"
                      /\ UNCHANGED <<cur, acc, path, offset, out, caller, output>>
    /\ UNCHANGED <<args, interval, requests, name_map>>

(***************************************************************************)
(* paged_get: one turn of its loop, a GET and what follows it.             *)
(***************************************************************************)
\* {e.get("id"): e.get("name", e.get("id")) for e in elements}
RECURSIVE build_map(_, _)
build_map(elements, m) ==
    IF elements = <<>> THEN m
    ELSE LET e  == Head(elements)
             id == Get(e, "id", "")
         IN  build_map(Tail(elements), Put(m, id, Get(e, "name", id)))

\* A GET as the transport saw it, and whether it answered with success.
request(p, off, ok) == [path |-> p, offset |-> off, limit |-> PAGE_LIMIT, ok |-> ok]

\* paged_get returns result to its caller.
paged_return(result) ==
    CASE caller = "single" ->
            /\ rows' = result
            /\ pc' = "fetched"
            /\ UNCHANGED <<cur, acc, name_map>>
      [] caller = "chunk" ->
            /\ acc' = acc \o result
            /\ cur' = IF query = "discounts" THEN next_month(cur)
                                             ELSE next_month_start(cur)
            /\ pc' = "chunk"
            /\ UNCHANGED <<rows, name_map>>
      [] OTHER ->
            /\ name_map' = build_map(result, EmptyDict)
            /\ pc' = "mapped"
            /\ UNCHANGED <<cur, acc, rows>>

\* What paged_get adds to out for a batch, and whether it asks again.
next_offset(off) == off + PAGE_LIMIT

asks_againUntilEmpty(batch) == batch # <<>>

asks_again(batch) == batch # <<>> /\ ~(Len(batch) < PAGE_LIMIT)

PageOk ==
    /\ pc = "page"
    /\ requests' = Append(requests, request(path, offset, TRUE))
    /\ LET batch == serve(path, offset, PAGE_LIMIT)
       IN  /\ out' = out \o batch
           /\ IF asks_again(batch)
              THEN /\ offset' = next_offset(offset)
                   /\ UNCHANGED <<pc, cur, acc, rows, name_map>>
              ELSE /\ paged_return(out')
                   /\ UNCHANGED offset
    /\ UNCHANGED <<args, interval, path, caller, output>>

\* The error taken for the end of the data: paged_get returns what it has.
PageErrorPartial ==
    /\ pc = "page"
    /\ requests' = Append(requests, request(path, offset, FALSE))
    /\ paged_return(out)
    /\ UNCHANGED <<args, interval, path, offset, out, caller, output>>

\* requests.get or r.raise_for_status() raises: nothing catches it.
PageError ==
    /\ pc = "page"
    /\ requests' = Append(requests, request(path, offset, FALSE))
    /\ pc' = "crashed"
    /\ UNCHANGED <<args, interval, cur, acc, path, offset, out, caller, rows,
                   name_map, output>>

(***************************************************************************)
(* main(): the metric and the report.                                      *)
(***************************************************************************)
\* f"${cents/100:,.2f}"
fmt_money(cents) ==
    [neg |-> cents < 0, dollars |-> abs(cents) \div 100, cents |-> abs(cents) % 100]

\* The amount the scalar line shows: abs(cents).
shown(cents) == fmt_money(abs(cents))

\* date_lbl
date_lbl(sd, ed) == IF sd = ed THEN <<sd>> ELSE <<sd, ed>>

scalar_line(label, cents) ==
    [kind |-> "scalar", label |-> label,
     dates |-> date_lbl(interval.s, interval.e), amount |-> shown(cents)]

\* A breakdown: its heading, then a line per key in key order, or the one
\* line that says nothing was recorded.
breakdown_line(title, b) ==
    [kind |-> "breakdown", title |-> title, empty |-> (DOMAIN b = {}),
     lines |-> [k \in DOMAIN b |-> fmt_money(b[k])]]

print(line) == output' = Append(output, line)

Report ==
    /\ pc \in {"fetched", "mapped"}
    /\ IF pc = "mapped"
       THEN /\ print(IF query = "discounts"
                     THEN breakdown_line("discount", discounts_breakdown(rows, name_map))
                     ELSE breakdown_line("employee", tips_by_employee(rows, name_map)))
            /\ pc' = "done"
            /\ UNCHANGED <<path, offset, out, caller>>
       ELSE IF detail /\ query \in {"discounts", "tips"}
       THEN /\ call_paged_get(list_path(IF query = "discounts" THEN "discounts"
                                                               ELSE "employees"), "map")
            /\ UNCHANGED output
       ELSE /\ print(CASE query = "discounts" ->
                            scalar_line("Total discounts", total_discounts_cents(rows))
                       [] query = "tax" ->
                            scalar_line("Total tax", total_tax_cents(rows))
                       [] query = "tips" ->
                            scalar_line("Total tips", total_tips_cents(rows))
                       [] query = "sales" /\ ~detail ->
                            scalar_line("Net sales", net_sales_cents(rows))
                       [] query = "sales" /\ detail /\ interval.range_type = "day" ->
                            breakdown_line("hour", sales_by_hour(rows, interval.s))
                       [] query = "sales" /\ detail /\ interval.range_type = "range" ->
                            breakdown_line("day",
                                           sales_by_day(rows, interval.s, interval.e))
                       [] OTHER ->
                            breakdown_line("month",
                                           sales_by_month(rows, year_of(interval.s))))
            /\ pc' = "done"
            /\ UNCHANGED <<path, offset, out, caller>>
    /\ UNCHANGED <<args, interval, cur, acc, requests, rows, name_map>>

Next == Window \/ GetRows \/ PageOk \/ PageError \/ Report

(***************************************************************************)
(* Inputs.                                                                 *)
(***************************************************************************)
\* str(n) of a number below 10,000, zero-padded to four and to two digits.
chars4(n) ==
    <<Digits[((n \div 1000) % 10) + 1], Digits[((n \div 100) % 10) + 1],
      Digits[((n \div 10) % 10) + 1], Digits[(n % 10) + 1]>>

chars2(n) == <<Digits[((n \div 10) % 10) + 1], Digits[(n % 10) + 1]>>

\* The command-line spelling YYYY-MM-DD.
iso(y, m, d) == chars4(y) \o <<"-">> \o chars2(m) \o <<"-">> \o chars2(d)

FirstToday == date(2023, 12, 20)

Todays == FirstToday .. (FirstToday + NumDays - 1)

Keywords ==
    {kw_year, kw_today, kw_yesterday, kw_week, kw_month, kw_last_week, kw_last_month}

YearKeys ==
    {chars4(y) : y \in {1999, 2000, 2006, 2023, 2024, 2025, 2099, 2100}}
        \cup {<<"+">> \o chars4(2024), <<"-">> \o chars4(2024)}

DateKeys ==
    {iso(2024, 2, 29), iso(2024, 3, 10), iso(2024, 11, 3), iso(2024, 12, 31),
     iso(2025, 1, 1), iso(2005, 4, 3)}

BadKeys ==
    {<<"Y", "e", "a", "r">>, <<"Y", "E", "A", "R">>, <<"T", "o", "d", "a", "y">>,
     <<>>, <<"n", "o", "w">>, iso(2023, 2, 29), iso(2024, 13, 1), iso(2024, 4, 31),
     <<"2", "0", "2", "4", "-", "1", "-", "5">>}

Selectors == Keywords \cup YearKeys \cup DateKeys \cup BadKeys

EmptyRemote == [payments |-> <<>>, orders |-> <<>>, employees |-> <<>>, discounts |-> <<>>]

\* main() before it has done anything.
Fresh ==
    /\ pc = "start"
    /\ interval = bad_range
    /\ cur = 0
    /\ acc = <<>>
    /\ path = NoPath
    /\ offset = 0
    /\ out = <<>>
    /\ caller = ""
    /\ requests = <<>>
    /\ rows = <<>>
    /\ name_map = EmptyDict
    /\ output = <<>>

(***************************************************************************)
(* SpecWindow: window() on every selector and every current date.          *)
(***************************************************************************)
InitWindow ==
    /\ today \in Todays
    /\ range_key \in Selectors
    /\ query = "sales"
    /\ detail = FALSE
    /\ remote = EmptyRemote
    /\ Fresh

SpecWindow == InitWindow /\ [][Window]_vars

(***************************************************************************)
(* SpecPaged: paged_get draining a collection of up to MaxRecords records, *)
(* as get_payments calls it for one day.                                   *)
(***************************************************************************)
PagedToday == date(2024, 6, 15)

\* N payments made between 13:00 and 15:00 Central on PagedToday.
paged_payments(n, t) == [i \in 1..n |-> [id |-> i, createdTime |-> t + (i % 2)]]

InitPaged ==
    /\ today = PagedToday
    /\ range_key = kw_today
    /\ query = "tax"
    /\ detail = FALSE
    /\ \E t \in {epoch_ms(combine(PagedToday, 13))} : \E n \in 0..MaxRecords :
            remote = [EmptyRemote EXCEPT !.payments = paged_payments(n, t)]
    /\ Fresh

\* The run up to the return of get_payments / get_orders.
NextFetch == Window \/ GetRows \/ PageOk \/ PageError

SpecPaged == InitPaged /\ [][NextFetch]_vars

(***************************************************************************)
(* SpecFetch: whole runs of main() over day, month and year intervals      *)
(* against a merchant with up to MaxRows records made at the instants      *)
(* where intervals and chunks begin and end.                               *)
(***************************************************************************)
\* The instant of a Central wall-clock reading.
central(y, m, d, h, tick) == epoch_ms(<<date(y, m, d), h, tick>>)

FetchToday == date(2024, 6, 15)

FetchSelectors == {kw_today, kw_last_month, kw_year, chars4(2023)}

FetchTimes ==
    {central(2024, 1, 1, 12, 0), central(2024, 1, 1, 12, 1),
     central(2024, 2, 1, 0, 0), central(2024, 2, 1, 6, 0),
     central(2024, 2, 1, 12, 0), central(2024, 6, 15, 12, 0),
     central(2024, 6, 15, 12, 1), central(2024, 12, 31, 23, 1),
     central(2025, 1, 1, 0, 0), central(2025, 1, 1, 12, 1)}

\* A payment or an order made at t; the payment was refunded with a fee.
record_at(t) ==
    [createdTime |-> t, amount |-> 100, taxAmount |-> 20, tipAmount |-> 10,
     total |-> 100, refunds |-> [elements |-> <<[amount |-> 150]>>]]

\* The sequences of up to n of the samples, in the order of the samples.
NonDecreasing(k, n) ==
    {f \in [1..k -> 1..n] : \A i \in 1..(k - 1) : f[i] <= f[i + 1]}

SamplesUpTo(samples, n) ==
    UNION {{[i \in 1..k |-> samples[ix[i]]] : ix \in NonDecreasing(k, Len(samples))} :
            k \in 0..n}

\* The elements of set S of instants as a sequence in time order.
RECURSIVE InOrder(_)
InOrder(S) ==
    IF S = {} THEN <<>>
    ELSE LET t == CHOOSE x \in S : \A y \in S : x <= y
         IN  <<t>> \o InOrder(S \ {t})

Employees == <<[id |-> "E1", name |-> "Alice"], [id |-> "E2"]>>

Discounts == <<[id |-> "D1", name |-> "Happy Hour"], [id |-> "D2"]>>

Queries == {"sales", "tax", "tips", "discounts"}

InitFetch ==
    /\ today = FetchToday
    /\ range_key \in FetchSelectors
    /\ query \in Queries
    /\ detail \in BOOLEAN
    /\ \E recs \in SamplesUpTo([i \in 1..Cardinality(FetchTimes) |->
                                        record_at(InOrder(FetchTimes)[i])], MaxRows) :
            remote = [payments |-> recs, orders |-> recs,
                      employees |-> Employees, discounts |-> Discounts]
    /\ Fresh

SpecFetch == InitFetch /\ [][Next]_vars

(***************************************************************************)
(* SpecSales: sales for one day, over payments with fields missing.        *)
(***************************************************************************)
SalesToday == date(2024, 11, 4)

\* Today at 12:00, 12:00 and a tick, 23:00 and a tick; yesterday afternoon.
SalesTimes ==
    <<central(2024, 11, 3, 12, 1), central(2024, 11, 4, 12, 0),
      central(2024, 11, 4, 12, 1), central(2024, 11, 4, 23, 1)>>

SalesMoney ==
    <<EmptyDict,
      [amount |-> 1000],
      [amount |-> 1000, taxAmount |-> 80],
      [amount |-> 1000, taxAmount |-> 80, refunds |-> [elements |-> <<[amount |-> 1500]>>]],
      [amount |-> 1000, refunds |-> [elements |-> <<[amount |-> 200], EmptyDict>>]],
      [taxAmount |-> 80, refunds |-> EmptyDict]>>

\* Every money sample at every time, and one record with no creation time.
SalesSamples ==
    [i \in 1..(Len(SalesTimes) * Len(SalesMoney) + 1) |->
        IF i > Len(SalesTimes) * Len(SalesMoney)
        THEN [amount |-> 500]
        ELSE Put(SalesMoney[((i - 1) % Len(SalesMoney)) + 1], "createdTime",
                 SalesTimes[((i - 1) \div Len(SalesMoney)) + 1])]

InitSales ==
    /\ today = SalesToday
    /\ range_key \in {kw_today, kw_yesterday}
    /\ query = "sales"
    /\ detail \in BOOLEAN
    /\ \E recs \in SamplesUpTo(SalesSamples, MaxRows) :
            remote = [EmptyRemote EXCEPT !.payments = recs]
    /\ Fresh

SpecSales == InitSales /\ [][Next]_vars

(***************************************************************************)
(* SpecTips: tips for one day, over payments with and without employees.   *)
(***************************************************************************)
TipTime == central(2024, 6, 15, 18, 0)

TipEmployees ==
    <<EmptyDict, [employee |-> EmptyDict], [employee |-> [id |-> "E1"]],
      [employee |-> [id |-> "E9"]], [employee |-> [name |-> "Bob"]]>>

TipOrders ==
    <<EmptyDict, [order |-> [id |-> "O1"]], [order |-> [employee |-> [id |-> "E2"]]],
      [order |-> [employee |-> [id |-> "E9"]]]>>

\* The record of dictionaries a and b together.
Merge(a, b) ==
    [k \in (DOMAIN a) \cup (DOMAIN b) |-> IF k \in DOMAIN a THEN a[k] ELSE b[k]]

\* A 200-cent tip with every employee and order sample, and a few others.
TipSamples ==
    [i \in 1..(Len(TipEmployees) * Len(TipOrders)) |->
        Merge([createdTime |-> TipTime, tipAmount |-> 200],
              Merge(TipEmployees[((i - 1) % Len(TipEmployees)) + 1],
                    TipOrders[((i - 1) \div Len(TipEmployees)) + 1]))]
    \o <<[createdTime |-> TipTime, employee |-> [id |-> "E1"]],
         [createdTime |-> TipTime, tipAmount |-> 0, employee |-> [id |-> "E1"]],
         [createdTime |-> TipTime, tipAmount |-> 0 - 50, employee |-> [id |-> "E9"]],
         [createdTime |-> TipTime, tipAmount |-> 300, employee |-> [id |-> "E1"]],
         [createdTime |-> TipTime, tipAmount |-> 300,
          order |-> [employee |-> [id |-> "E2"]]]>>

InitTips ==
    /\ today = FetchToday
    /\ range_key = kw_today
    /\ query = "tips"
    /\ detail \in BOOLEAN
    /\ \E recs \in SamplesUpTo(TipSamples, MaxRows) :
            remote = [EmptyRemote EXCEPT !.payments = recs, !.employees = Employees]
    /\ Fresh

SpecTips == InitTips /\ [][Next]_vars

(***************************************************************************)
(* SpecDiscounts: discounts for one day, over up to two orders that carry  *)
(* up to MaxLines discount lines between them.                             *)
(***************************************************************************)
LineSamples ==
    <<[name |-> "Happy Hour", amount |-> 0 - 200],
      [name |-> "Discount", discount |-> [id |-> "D1"], percentage |-> 10],
      [percentage |-> 50],
      [name |-> "Discount", discountId |-> "D9", amount |-> 0, percentage |-> 10],
      [name |-> "Discount", discountDefinitionId |-> "D2", amount |-> 0 - 100,
       percentage |-> 50],
      EmptyDict>>

\* An order of total t made at TipTime; a negative t stands for no total.
order_of(t, lines) ==
    IF t < 0 THEN [createdTime |-> TipTime, discounts |-> [elements |-> lines]]
    ELSE [createdTime |-> TipTime, total |-> t, discounts |-> [elements |-> lines]]

\* The lines shared between a first order of total t and a second of 1000.
orders_of(lines, k, t) ==
    IF k = Len(lines)
    THEN <<order_of(t, lines)>>
    ELSE <<order_of(t, SubSeq(lines, 1, k)),
           order_of(1000, SubSeq(lines, k + 1, Len(lines)))>>

OrderTotals == {0 - 1, 0, 99, 1000}

InitDiscounts ==
    /\ today = FetchToday
    /\ range_key = kw_today
    /\ query = "discounts"
    /\ detail \in BOOLEAN
    /\ \E lines \in UNION {[1..n -> {LineSamples[i] : i \in 1..Len(LineSamples)}] :
                                n \in 0..MaxLines} :
        \E k \in 0..Len(lines) : \E t \in OrderTotals :
            remote = [EmptyRemote EXCEPT
                        !.orders = orders_of(lines, k, t) \o <<[createdTime |-> TipTime]>>,
                        !.discounts = Discounts]
    /\ Fresh

SpecDiscounts == InitDiscounts /\ [][Next]_vars

\* The selectors the program documents: keywords, years 2000..2099, dates.
ValidSelectors ==
    Keywords \cup DateKeys
        \cup {k \in YearKeys : int_parse(k).val >= 2000 /\ int_parse(k).val <= 2099}

\* window() has returned an interval.
Resolved == pc # "start" /\ interval.ok

\* C1: for every valid selector and every current date window() returns an
\* interval with start_date <= end_date whose start instant reads 12:00
\* Central on start_date, whose end instant reads 00:00 Central on the day
\* after end_date, and whose start instant is before its end instant.
C1_WindowAnchors ==
    pc # "start" =>
        /\ range_key \in ValidSelectors => interval.ok
        /\ interval.ok =>
            /\ interval.s <= interval.e
            /\ interval.range_type \in {"day", "range", "year"}
            /\ astimezone_central(interval.start_ms) = <<interval.s, 12, 0>>
            /\ astimezone_central(interval.end_ms) = <<interval.e + 1, 0, 0>>
            /\ interval.start_ms < interval.end_ms

\* last_month resolved to a month in which daylight time begins: the
\* interval is an hour shorter than its wall-clock length.
C1_Witness ==
    /\ Resolved
    /\ range_key = kw_last_month
    /\ interval.end_ms - interval.start_ms
            = ((interval.e + 1 - interval.s) * 24 - 13) * TicksPerHour

\* The calendar year of the current date.
IsYearOfToday ==
    /\ interval.ok
    /\ interval.range_type = "year"
    /\ interval.s = date(year_of(today), 1, 1)
    /\ interval.e = date(year_of(today), 12, 31)

\* C2 as stated: a selector that equals 'year' in any letter case resolves
\* to the calendar year of the current date.
C2_AnyCaseYear == (pc # "start" /\ lower(range_key) = kw_year) => IsYearOfToday

\* C2, amended: the selector 'year', spelled in lower case, resolves to the
\* calendar year of the current date; a selector that differs from 'year'
\* in letter case only is a resolution failure.
C2_ExactYear ==
    pc # "start" =>
        /\ range_key = kw_year => IsYearOfToday
        /\ (lower(range_key) = kw_year /\ range_key # kw_year) =>
                (~interval.ok /\ pc = "exit")

C2_Witness ==
    /\ pc = "fetch"
    /\ range_key = kw_year
    /\ interval.s = date(2024, 1, 1)
    /\ interval.e = date(2024, 12, 31)

\* The most recent Sunday on or before d.
LastSunday(d) == CHOOSE x \in (d - 6)..d : weekday(x) = 6

\* C3: on every current date last_week resolves to the seven days from a
\* Sunday to the Saturday before the most recent Sunday on or before today
\* (today itself when today is a Sunday), whatever the month.
C3_LastWeek ==
    (pc # "start" /\ range_key = kw_last_week) =>
        /\ interval.ok
        /\ interval.range_type = "range"
        /\ interval.e = LastSunday(today) - 1
        /\ interval.s = interval.e - 6
        /\ weekday(interval.s) = 6
        /\ weekday(interval.e) = 5

\* Today is a Sunday, and last week began in the month before.
C3_Witness ==
    /\ Resolved
    /\ range_key = kw_last_week
    /\ weekday(today) = 6
    /\ interval.e = today - 1
    /\ month_of(interval.s) # month_of(today)

\* The page the API serves for the i-th request.
PageServed(i) == serve(requests[i].path, requests[i].offset, requests[i].limit)

\* C4: paged_get asks for offsets 0, 1000, 2000, ... with limit 1000, asks
\* nothing more after the first page that is empty or shorter than 1000,
\* makes at most N/1000 + 1 requests, and returns the N records once each
\* in collection order.
C4_PagedGet ==
    LET n == Len(remote.payments)
    IN  /\ \A i \in 1..Len(requests) :
            /\ requests[i].offset = (i - 1) * 1000
            /\ requests[i].limit = 1000
            /\ i < Len(requests) => Len(PageServed(i)) = 1000
        /\ Len(requests) <= (n \div 1000) + 1
        /\ pc = "page" => offset = Len(requests) * 1000 /\ Len(out) = offset
        /\ pc = "fetched" =>
            /\ Len(PageServed(Len(requests))) < 1000
            /\ rows = remote.payments

\* Two full pages and then an empty one.
C4_Witness ==
    /\ pc = "fetched"
    /\ Len(requests) = 3
    /\ PageServed(3) = <<>>
    /\ Len(rows) = 2000

\* get_payments is chunking: the interval is longer than 90 days.
PaymentsChunked ==
    /\ Resolved
    /\ query # "discounts"
    /\ days_diff(interval.start_ms, interval.end_ms) > CHUNK_DAYS

\* The query of calendar month m of year y: 12:00 Central on its first day
\* to 00:00 Central after its last day.
MonthQuery(y, m) ==
    time_path("payments", epoch_ms(combine(date(y, m, 1), 12)), TRUE,
              epoch_ms(combine(date(y, m, days_in_month(y, m)) + 1, 0)))

\* C5: when the interval exceeds 90 days get_payments issues one query per
\* calendar month of [start_date, end_date], each from 12:00 Central on the
\* month's first day to 00:00 Central after its last, every query inside
\* [start_instant, end_instant), so that no payment outside the resolved
\* interval is in the result.
C5_ChunksInsideInterval ==
    PaymentsChunked =>
        /\ \A i \in 1..Len(requests) :
            /\ requests[i].path = MonthQuery(year_of(interval.s), i)
            /\ interval.start_ms <= requests[i].path.lo
            /\ requests[i].path.hi <= interval.end_ms
        /\ pc \in {"fetched", "done"} =>
            /\ Len(requests) = 12
            /\ \A j \in 1..Len(rows) :
                /\ interval.start_ms <= rows[j]["createdTime"]
                /\ rows[j]["createdTime"] < interval.end_ms

\* A line of the output that reports a total or a breakdown.
IsResult(line) == line.kind \in {"scalar", "breakdown"}

\* C6: a transport error on any page request ends the invocation at once:
\* the failed request is the last one made, nothing runs after it, and no
\* total or breakdown has been or will be printed.
C6_TransportErrorIsFatal ==
    /\ \A i \in 1..Len(requests) :
        ~requests[i].ok =>
            /\ i = Len(requests)
            /\ pc = "crashed"
            /\ \A j \in 1..Len(output) : ~IsResult(output[j])
    /\ pc = "crashed" => ~ENABLED Next

\* The error struck a later month chunk, after records had been fetched.
C6_Witness ==
    /\ pc = "crashed"
    /\ caller = "chunk"
    /\ acc # <<>>
    /\ Len(requests) > 2
    /\ ~requests[Len(requests)].ok

\* The sum of the values of dictionary b over the keys in S.
RECURSIVE SumOver(_, _)
SumOver(b, S) ==
    IF S = {} THEN 0
    ELSE LET k == CHOOSE x \in S : TRUE
         IN  b[k] + SumOver(b, S \ {k})

SumValues(b) == SumOver(b, DOMAIN b)

\* What a discount line is worth by the rule of the claim: a fixed amount
\* verbatim, otherwise minus the truncated percentage of the order's total.
LineWorth(d, order_total) ==
    IF has(d, "amount") /\ d["amount"] # 0 THEN d["amount"]
    ELSE IF has(d, "percentage") THEN 0 - int_div100(order_total * d["percentage"])
    ELSE 0

RECURSIVE LinesWorth(_, _)
LinesWorth(ds, order_total) ==
    IF ds = <<>> THEN 0
    ELSE LineWorth(Head(ds), order_total) + LinesWorth(Tail(ds), order_total)

RECURSIVE OrdersWorth(_)
OrdersWorth(orders) ==
    IF orders = <<>> THEN 0
    ELSE LinesWorth(discount_elements(Head(orders)), Get(Head(orders), "total", 0))
            + OrdersWorth(Tail(orders))

\* C7: the scalar discounts total is the sum over every discount line of
\* every fetched order of the line's worth (percentage lines included), and
\* so equals the sum of the values of the discounts breakdown of the same
\* orders.
C7_ScalarCountsEveryLine ==
    (pc \in {"fetched", "mapped", "done"} /\ query = "discounts") =>
        /\ total_discounts_cents(rows) = OrdersWorth(rows)
        /\ total_discounts_cents(rows) = SumValues(discounts_breakdown(rows, name_map))

\* C8: for a day-shaped interval the buckets of sales_by_hour over the
\* fetched payments have keys in 12..24 and values that sum to
\* net_sales_cents of the same payments.
C8_HourlySumsToNet ==
    (pc \in {"fetched", "done"} /\ query = "sales" /\ interval.range_type = "day") =>
        LET b == sales_by_hour(rows, interval.s)
        IN  /\ DOMAIN b \subseteq 12..24
            /\ SumValues(b) = net_sales_cents(rows)

\* Two payments in two hours of the day, one of them just after noon and
\* with fields missing, shown as the hourly breakdown.
C8_Witness ==
    /\ pc = "done"
    /\ detail
    /\ Len(rows) = 2
    /\ ~has(rows[1], "taxAmount")
    /\ DOMAIN sales_by_hour(rows, interval.s) = {12, 23}
    /\ output[1].kind = "breakdown"
    /\ DOMAIN output[1].lines = {12, 23}

\* The metric a scalar line reports.
ScalarCents ==
    CASE query = "discounts" -> total_discounts_cents(rows)
      [] query = "tax" -> total_tax_cents(rows)
      [] query = "tips" -> total_tips_cents(rows)
      [] OTHER -> net_sales_cents(rows)

\* C9: the scalar line shows the discounts total as a magnitude and every
\* other metric with the sign of the computed total, so a negative net
\* sales is shown negative.
C9_ScalarKeepsSign ==
    \A j \in 1..Len(output) :
        output[j].kind = "scalar" =>
            output[j].amount = IF query = "discounts" THEN fmt_money(abs(ScalarCents))
                                                      ELSE fmt_money(ScalarCents)

\* The last line printed.
LastLine == output[Len(output)]

\* main() has printed the tips breakdown.
TipsShown == pc = "done" /\ query = "tips" /\ detail

\* C10 as stated: every key of the tips breakdown is a display name of the
\* EmployeeMap or 'Unknown Employee'.
C10_KeysNamedOrUnknown ==
    TipsShown =>
        \A k \in DOMAIN LastLine.lines :
            k = UnknownEmployee \/ \E id \in DOMAIN name_map : name_map[id] = k

\* The employee id of a payment: that of its employee object, and when the
\* payment has no employee object, that of its order's employee; "" if none.
TipEmployee(p) ==
    IF has(p, "employee") /\ p["employee"] # EmptyDict
    THEN (IF has(p["employee"], "id") THEN p["employee"]["id"] ELSE "")
    ELSE IF has(p, "order") /\ has(p["order"], "employee")
            /\ has(p["order"]["employee"], "id")
    THEN p["order"]["employee"]["id"]
    ELSE ""

\* The key of a payment: the display name of its employee id, the id itself
\* when the EmployeeMap does not hold it, 'Unknown Employee' without an id.
TipKey(p) ==
    IF TipEmployee(p) = "" THEN UnknownEmployee
    ELSE IF TipEmployee(p) \in DOMAIN name_map THEN name_map[TipEmployee(p)]
    ELSE TipEmployee(p)

\* The payments with a tip above zero.
Tipped == {i \in 1..Len(rows) : has(rows[i], "tipAmount") /\ rows[i]["tipAmount"] > 0}

RECURSIVE TipSum(_)
TipSum(S) ==
    IF S = {} THEN 0
    ELSE LET i == CHOOSE x \in S : TRUE
         IN  rows[i]["tipAmount"] + TipSum(S \ {i})

\* C10, amended: tips_by_employee sums tipAmount over the payments with a tip
\* above zero only; each is keyed by the display name of its employee id
\* (the payment's employee, else its order's employee), by the raw id when
\* the EmployeeMap does not hold it, and by 'Unknown Employee' only when no
\* employee id is found.
C10_TipsByEmployee ==
    TipsShown =>
        /\ DOMAIN LastLine.lines = {TipKey(rows[i]) : i \in Tipped}
        /\ \A k \in DOMAIN LastLine.lines :
                LastLine.lines[k] = fmt_money(TipSum({i \in Tipped : TipKey(rows[i]) = k}))
        /\ LastLine.empty = (Tipped = {})

\* One tip keyed by an id the EmployeeMap does not hold, taken from the
\* order, and one keyed 'Unknown Employee'.
C10_Witness ==
    /\ TipsShown
    /\ DOMAIN LastLine.lines = {"E9", UnknownEmployee}
    /\ \E i \in 1..Len(rows) : ~has(rows[i], "employee") /\ TipEmployee(rows[i]) = "E9"

\* The records of seq made at instant t, counted.
MadeAt(seq, t) ==
    Cardinality({i \in 1..Len(seq) : has(seq[i], "createdTime") /\ seq[i]["createdTime"] = t})

\* The instants at which the merchant's records of the queried kind were made.
RemoteTimes ==
    {remote[resource_of(query)][i]["createdTime"] :
        i \in 1..Len(remote[resource_of(query)])}

\* get_payments / get_orders has returned.
Fetched == pc \in {"fetched", "mapped", "done"}

\* C11: the fetch is complete and exactly-once on the half-open interval:
\* every payment or order made at an instant t with start_instant <= t <
\* end_instant is in the fetched rows exactly once, whether fetched by one
\* query or in month chunks, a record made exactly at start_instant and a
\* record made at or between chunk boundaries included.
C11_FetchExactlyOnce ==
    Fetched =>
        \A t \in RemoteTimes :
            (interval.start_ms <= t /\ t < interval.end_ms) =>
                MadeAt(rows, t) = MadeAt(remote[resource_of(query)], t)

\* x / 100 with the fraction dropped, for x of either sign.
TruncTowardZero(x) ==
    LET m == IF x < 0 THEN 0 - x ELSE x
        q == (m - (m % 100)) \div 100
    IN  IF x < 0 THEN 0 - q ELSE q

\* What the claim gives a discount line d of an order of total T: a fixed
\* amount other than zero verbatim, whatever the percentage; otherwise minus
\* T * percentage / 100 truncated toward zero.
Contribution(d, T) ==
    IF has(d, "amount") /\ d["amount"] # 0 THEN d["amount"]
    ELSE IF has(d, "percentage") THEN 0 - TruncTowardZero(T * d["percentage"])
    ELSE 0

\* The contributions of the lines ds of an order of total T that are named k.
RECURSIVE NamedLines(_, _, _)
NamedLines(ds, T, k) ==
    IF ds = <<>> THEN 0
    ELSE (IF discount_name(Head(ds), name_map) = k THEN Contribution(Head(ds), T) ELSE 0)
            + NamedLines(Tail(ds), T, k)

RECURSIVE NamedOrders(_, _)
NamedOrders(orders, k) ==
    IF orders = <<>> THEN 0
    ELSE NamedLines(discount_elements(Head(orders)), Get(Head(orders), "total", 0), k)
            + NamedOrders(Tail(orders), k)

\* main() has printed the discounts breakdown.
DiscountsShown == pc = "done" /\ query = "discounts" /\ detail

\* C12: in discounts_breakdown a line without a fixed amount and with
\* percentage p on an order of total T contributes minus T * p / 100
\* truncated toward zero, and a line with a fixed amount other than zero
\* contributes that amount whatever its percentage: every value of the
\* breakdown is the sum of these contributions of the lines of its name.
C12_PercentageTruncates ==
    DiscountsShown =>
        LET b == discounts_breakdown(rows, name_map)
        IN  /\ \A k \in DOMAIN b : b[k] = NamedOrders(rows, k)
            /\ \A k \in DOMAIN LastLine.lines :
                    LastLine.lines[k] = fmt_money(NamedOrders(rows, k))
            /\ DOMAIN LastLine.lines = DOMAIN b

\* 50% of a 99-cent order shown as -49, 10% of a 1000-cent order as -100,
\* and a line of -100 fixed with 50% as -100.
C12_Witness ==
    /\ DiscountsShown
    /\ Len(rows) >= 2
    /\ Get(rows[1], "total", 0) = 99
    /\ discount_elements(rows[1]) = <<[percentage |-> 50]>>
    /\ Len(discount_elements(rows[2])) = 2
    /\ DOMAIN LastLine.lines = {"Unknown Discount", "Happy Hour", "D2"}
    /\ LastLine.lines["Unknown Discount"] = fmt_money(0 - 49)
    /\ LastLine.lines["Happy Hour"] = fmt_money(0 - 100)
    /\ LastLine.lines["D2"] = fmt_money(0 - 100)

=============================================================================
